---- MODULE Spec2Model ----
(***************************************************************************)
(* Lervet print service: the printer connection manager (src/src/printer.js,*)
(* class SimplePrinter) and the service bridge (src/src/main.js).           *)
(*                                                                          *)
(* Every socket event starts an async handler (a task).  A task runs       *)
(* synchronously up to its next I/O await (SerialPort.list, a liveness      *)
(* query isPrinterConnected, a transmission execute, the 5 s retry delay);  *)
(* an action of the model is one such run: the arrival of an event or the   *)
(* completion of one awaited I/O, followed by all the code the task runs    *)
(* before it awaits I/O again.  Handlers interleave only at these awaits    *)
(* (Node's event loop drains the microtask queue between I/O callbacks).    *)
(***************************************************************************)
EXTENDS Integers, Sequences, FiniteSets, TLC

\* ------------------------------------------------------------------ bounds

\* Number of socket events (newToken, testPrint, reconnectPrinter,
\* printerStatus) delivered in one run.
MaxEvents == 2

\* Socket events delivered in one run of SpecQuick: enough for maxReconnectAttempts
\* failed quick reconnects and one more request
MaxQuickEvents == 6

\* Longest list SerialPort.list() answers with in the scans of SpecScan.
MaxPorts == 3

\* ------------------------------------------------- constants of the program

\* initializePrinter with its loop ending one attempt early
maxAttemptsShort == 3 - 1

\* main.js: const maxAttempts = 3 (initializePrinter)
maxAttempts == 3

\* printer.js: this.maxReconnectAttempts = 5
maxReconnectAttempts == 5

\* printer.js tryUsbPort: configs = [EPSON, STAR]
configs == <<"epson", "star">>

\* printer.js scanAllUsbPorts: printerVendorIds
printerVendorIds == {"04b8", "0519", "04da", "067b", "0fe6"}

\* printer.js scanAllUsbPorts: printerManufacturers (strings as character sequences)
printerManufacturers ==
    { <<"e","p","s","o","n">>, <<"s","t","a","r">>,
      <<"c","i","t","i","z","e","n">>, <<"b","i","x","o","l","o","n">> }

\* ------------------------------------------------------------------ strings

\* String.prototype.toLowerCase on one character
LowerChar(c) ==
    CASE c = "A" -> "a" [] c = "B" -> "b" [] c = "C" -> "c" [] c = "D" -> "d"
      [] c = "E" -> "e" [] c = "F" -> "f" [] c = "I" -> "i" [] c = "N" -> "n"
      [] c = "O" -> "o" [] c = "P" -> "p" [] c = "R" -> "r" [] c = "S" -> "s"
      [] c = "T" -> "t" [] c = "Z" -> "z" [] OTHER -> c

toLowerCase(s) == [i \in 1..Len(s) |-> LowerChar(s[i])]

\* String.prototype.includes
includes(s, sub) ==
    \E i \in 1..(Len(s) + 1) :
        /\ i + Len(sub) - 1 <= Len(s)
        /\ SubSeq(s, i, i + Len(sub) - 1) = sub

\* ------------------------------------------------------------ environment

\* The serial endpoints of the host, as SerialPort.list() reports them:
\* path, manufacturer (<<>> when undefined) and vendorId.
PortCatalog ==
    << [path |-> "COM1", manufacturer |-> <<>>, vendorId |-> "undefined"],
       [path |-> "COM3", manufacturer |-> <<"E","P","S","O","N">>, vendorId |-> "undefined"],
       [path |-> "COM4", manufacturer |-> <<"F","T","D","I">>, vendorId |-> "04b8"],
       [path |-> "COM5", manufacturer |-> <<"S","t","a","r"," ","M">>, vendorId |-> "0519"],
       [path |-> "COM2", manufacturer |-> <<"w","c","h">>, vendorId |-> "1a86"] >>

NULL == "null"

\* process.env: PRINTER_MODE, PRINTER_PORT, PRINTER_IP
Environments ==
    { [PRINTER_MODE |-> "usb",     PRINTER_PORT |-> NULL,   PRINTER_IP |-> NULL],
      [PRINTER_MODE |-> "usb",     PRINTER_PORT |-> "COM3", PRINTER_IP |-> NULL],
      [PRINTER_MODE |-> "network", PRINTER_PORT |-> NULL,   PRINTER_IP |-> "192.168.0.50"],
      [PRINTER_MODE |-> "network", PRINTER_PORT |-> NULL,   PRINTER_IP |-> NULL],
      [PRINTER_MODE |-> "tmusb",   PRINTER_PORT |-> NULL,   PRINTER_IP |-> NULL],
      [PRINTER_MODE |-> "windows-spooler", PRINTER_PORT |-> NULL, PRINTER_IP |-> NULL] }

\* The modes init() has a branch for
SupportedModes == {"usb", "network", "tmusb"}

\* The lists SerialPort.list() may answer with on the service's host: no endpoint,
\* or the one endpoint of the printer's cable (it is plugged in and out).
HostLists == { <<>>, <<PortCatalog[1]>> }

\* Every list of up to MaxPorts distinct endpoints of the catalog, in any order
ScanLists ==
    LET Picks == UNION { [1..n -> 1..Len(PortCatalog)] : n \in 0..MaxPorts }
        Distinct(f) == \A i, j \in DOMAIN f : i # j => f[i] # f[j]
    IN  { [i \in DOMAIN f |-> PortCatalog[f[i]]] : f \in {g \in Picks : Distinct(g)} }

\* tokenData.numero of the newToken event that arrives as the n-th event
Numero(n) == IF n % 2 = 1 THEN "042" ELSE "7"

\* ------------------------------------------------------------------ state

VARIABLES
    env,            \* process.env, read by init()
    host,           \* the lists SerialPort.list() may answer with
    printer,        \* main.js `printer`: the SimplePrinter object (its four fields)
    systemStatus,   \* main.js `systemStatus`
    emitted,        \* the reports sent upstream with socket.emit in the latest step
    returned,       \* the handler that returned in the latest step, as it returned
    channelLost,    \* kind of the handler whose job last failed in printTokenNumber's
                    \* catch with no connection made since ("none" otherwise)
    delivered,      \* number of socket events delivered so far
    tasks,          \* the async functions in flight: task 0 is main(), the others
                    \* the handlers of socket events
    audit,          \* whether the run keeps the two records below of what happens
                    \* to ThermalPrinter objects (they never influence the program)
    released,       \* identities of the handles reconnect() has dropped, as long as
                    \* a handler still references them
    buffers,        \* the print buffer of each ThermalPrinter object still referenced
    payloads,       \* the kinds of tokenData the backend may send
    horizon,        \* the number of socket events the run is followed for
    proc            \* the process: whether it has exited and with which code, the
                    \* signal that ended it and the socket

vars == <<env, host, printer, systemStatus, emitted, returned, channelLost, delivered, tasks,
          audit, released, buffers, payloads, horizon, proc>>

\* main() and the handlers of two socket events: the model follows the runs in which
\* at most two of them are in flight at once.
TaskIds == {0, 1, 2}

\* A ThermalPrinter object: its interface and type, and an identity that tells it
\* from every other object still referenced; NoHandle is null.
NoHandle == [interface |-> NULL, type |-> NULL, id |-> 0]

\* Identities of ThermalPrinter objects: one per task and this.printer, and one spare
HandleIds == 1..(Cardinality(TaskIds) + 2)

NoTask ==
    [ kind |-> "none", pc |-> "idle",
      seq |-> 0,                     \* the event's number in arrival order
      numero |-> NULL,
      attempt |-> 0,                 \* initializePrinter's loop counter
      via |-> "none",                \* caller of tryUsbPort / printConnectionTest
      skipTest |-> FALSE, portName |-> NULL, cfg |-> 0,
      h |-> NoHandle,                \* tryUsbPort's `printer`, or the handle execute() runs on
      ports |-> <<>>,                \* scanAllUsbPorts' `ports`
      queue |-> <<>>,                \* the candidates the scan's two loops have yet to try
      scanLog |-> <<>>,              \* paths handed to tryUsbPort in this scan, in order
      scanHit |-> NULL,              \* path whose liveness query passed in this scan
      scanned |-> "none",            \* what the last SerialPort.list() of the task gave
      inits |-> 0,                   \* calls of init()
      jobExecs |-> 0,                \* execute() calls of printTokenNumber
      reports |-> 0,                 \* socket.emit calls of the handler
      arrival |-> [connected |-> FALSE, lost |-> "none"],
                                     \* what a newToken handler found on arrival
      payload |-> "valid",           \* kind of the event's tokenData
      sent |-> <<>>,                 \* the buffer handed to the outstanding execute()
      ret |-> "none" ]               \* which return the handler took

\* The program state one task's synchronous run reads and writes.
Machine(t) ==
    [ printer |-> printer, systemStatus |-> systemStatus, emitted |-> <<>>,
      returned |-> NoTask, channelLost |-> channelLost, task |-> tasks[t], id |-> t,
      released |-> released, buffers |-> buffers ]

\* socket.emit(event, {...}): the event, its token and its error, success or
\* connected field
Emit(M, event, token, info) ==
    [M EXCEPT !.emitted = Append(@, [event |-> event, token |-> token, info |-> info]),
              !.task.reports = @ + 1]

\* new ThermalPrinter(config): an object that is none of those still referenced
\* (by this.printer or by a handler's local)
NewThermalPrinter(M, interface, type) ==
    LET used == {M.printer.printer.id} \cup {tasks[t].h.id : t \in TaskIds}
    IN  [interface |-> interface, type |-> type,
         id |-> CHOOSE k \in HandleIds :
                    k \notin used /\ \A j \in 1..(k - 1) : j \in used]

\* The handler's async function returns by the return `ret`: its locals are gone.
Finish(M, ret) ==
    [M EXCEPT !.returned = [NoTask EXCEPT !.kind = M.task.kind, !.seq = M.task.seq,
                                          !.numero = M.task.numero,
                                          !.inits = M.task.inits,
                                          !.jobExecs = M.task.jobExecs,
                                          !.reports = M.task.reports,
                                          !.scanned = M.task.scanned,
                                          !.arrival = M.task.arrival,
                                          !.via = M.task.via,
                                          !.ret = ret],
              !.task = NoTask]

\* ------------------------------------------- printer.js: the synchronous code

\* scanAllUsbPorts: the filter's predicate (vendor id or manufacturer of a printer maker)
IsPrinterPort(port) ==
    \/ port.vendorId \in printerVendorIds
    \/ \E mfg \in printerManufacturers : includes(toLowerCase(port.manufacturer), mfg)

\* scanAllUsbPorts: const printerPorts = ports.filter(...)
printerPorts(ports) == SelectSeq(ports, IsPrinterPort)

\* Array.prototype.includes
ArrayIncludes(arr, x) == \E i \in 1..Len(arr) : arr[i] = x

\* scanAllUsbPorts with the second loop running over every port
remainingPorts_Unfiltered(ports) == ports

\* scanAllUsbPorts: const remainingPorts = ports.filter(port => !printerPorts.includes(port))
remainingPorts(ports) ==
    SelectSeq(ports, LAMBDA port : ~ArrayIncludes(printerPorts(ports), port))

\* scanAllUsbPorts: the paths its two for-loops hand to tryUsbPort, in order
ScanOrder(ports) ==
    LET both == printerPorts(ports) \o remainingPorts(ports)
    IN  [i \in 1..Len(both) |-> both[i].path]

\* scanAllUsbPorts: `if (await this.tryUsbPort(port.path)) return;` inside the loops:
\* the scan goes on to the next candidate only after a failed probe
ScanContinues(found, queue) == ~found /\ queue # <<>>

\* The newToken handler with the success branch counting nothing
ReturnFromPrintToken_NoCount(M, ret) ==
    IF M.task.kind = "newToken"
    THEN IF ret = "ok"
         THEN Finish(Emit([M EXCEPT !.systemStatus.lastToken = M.task.numero],
                          "tokenPrinted", M.task.numero, "ok"), ret)
         ELSE Finish(Emit([M EXCEPT !.systemStatus.printErrors = @ + 1,
                                    !.systemStatus.printerConnected = FALSE],
                          "printError", M.task.numero, "Falha na impressao"), ret)
    ELSE Finish(Emit(M, "testPrintResponse", NULL, IF ret = "ok" THEN "true" ELSE "false"),
                ret)

\* printTokenNumber returns to its caller, the newToken or the testPrint handler
\* (main.js 120-143, 157-165); ret is the return taken: "ok" (339),
\* "disconnected" (290), or 344 after execute() rejected ("ioError") or after the
\* layout threw ("formatError")
ReturnFromPrintToken(M, ret) ==
    LET t == M.task IN
    IF t.kind = "newToken"
    THEN IF ret = "ok"
         THEN Finish(Emit([M EXCEPT !.systemStatus.totalTokensPrinted = @ + 1,
                                    !.systemStatus.lastToken = t.numero],
                          "tokenPrinted", t.numero, "ok"), ret)
         ELSE Finish(Emit([M EXCEPT !.systemStatus.printErrors = @ + 1,
                                    !.systemStatus.printerConnected = FALSE],
                          "printError", t.numero, "Falha na impressao"), ret)
    ELSE Finish(Emit(M, "testPrintResponse", NULL, IF ret = "ok" THEN "true" ELSE "false"),
                ret)

\* tryUsbPort, once per config: new ThermalPrinter(config), then the await of
\* Promise.race([printer.isPrinterConnected(), timeout])
StartProbe(M, cfg) ==
    LET new == NewThermalPrinter(M, M.task.portName, configs[cfg]) IN
    [M EXCEPT !.buffers[new.id] = <<>>,
              !.task = [@ EXCEPT !.cfg = cfg, !.h = new, !.pc = "isPrinterConnected"]]

\* tryUsbPort(portName, skipTest), up to its first await; via names the caller
StartTryUsbPort(M, portName, skipTest, via) ==
    StartProbe([M EXCEPT !.task = [@ EXCEPT
                    !.portName = portName, !.skipTest = skipTest, !.via = via,
                    !.scanLog = IF via = "scan" THEN Append(@, portName) ELSE @]],
               1)

\* A job composed without this.printer.clear()
Compose_NoClear(buffer, job) == Append(buffer, job)

\* this.printer.clear(), then the job's layout (setTextSize, alignCenter, println...,
\* cut): the buffer holds the layout of `job`
Compose(buffer, job) == Append(<<>>, job)

\* The catch blocks without `this.isConnected = false`
CatchPrintError_KeepsConnected(M) == M

\* The catch of printConnectionTest (270) and of printTokenNumber (343)
CatchPrintError(M) == [M EXCEPT !.printer.isConnected = FALSE]

\* The quick reconnect without its bound on the attempts
CanQuickReconnect_Unbounded(M) == M.printer.lastWorkingPort # NULL

\* printTokenNumber's condition for a quick reconnect (281)
CanQuickReconnect(M) ==
    /\ M.printer.lastWorkingPort # NULL
    /\ M.printer.reconnectAttempts < maxReconnectAttempts

\* printTokenNumber(token, extraData), up to its first await
EnterPrintTokenNumber(M) ==
    IF M.printer.printer = NoHandle \/ ~M.printer.isConnected
    THEN IF CanQuickReconnect(M)
         THEN StartTryUsbPort([M EXCEPT !.printer.reconnectAttempts = @ + 1],
                              M.printer.lastWorkingPort, TRUE, "quick")
         ELSE ReturnFromPrintToken(M, "disconnected")
    ELSE LET id == M.printer.printer.id
             layout == Compose(M.buffers[id], M.task.numero)
         IN
         IF M.task.payload = "malformed"
         THEN \* a println of the layout throws: the catch of line 341
              ReturnFromPrintToken(CatchPrintError([M EXCEPT !.buffers[id] = layout]),
                                   "formatError")
         ELSE \* clear(), the layout, cut(), then await this.printer.execute()
              [M EXCEPT !.buffers[id] = layout,
                        !.task = [@ EXCEPT !.pc = "execute", !.h = M.printer.printer,
                                           !.sent = layout,
                                           !.jobExecs = @ + 1,
                                           !.via = "none", !.portName = NULL, !.cfg = 0,
                                           !.skipTest = FALSE]]

\* The newToken handler with the `return` of line 108 missing
NewTokenAfterReconnect_NoReturn(M, connected) ==
    LET M2 == [M EXCEPT !.systemStatus.printerConnected = connected] IN
    IF ~connected
    THEN EnterPrintTokenNumber(
             Emit([M2 EXCEPT !.systemStatus.printErrors = @ + 1],
                  "printError", M.task.numero, "Impressora desconectada"))
    ELSE EnterPrintTokenNumber(M2)

\* The newToken handler reporting a failed reconnect without counting it
NewTokenAfterReconnect_NoCount(M, connected) ==
    LET M2 == [M EXCEPT !.systemStatus.printerConnected = connected] IN
    IF ~connected
    THEN Finish(Emit(M2, "printError", M.task.numero, "Impressora desconectada"),
                "reconnectFailed")
    ELSE EnterPrintTokenNumber(M2)

\* The newToken handler after `await printer.reconnect()` (main.js 96-110)
NewTokenAfterReconnect(M, connected) ==
    LET M2 == [M EXCEPT !.systemStatus.printerConnected = connected] IN
    IF ~connected
    THEN Finish(Emit([M2 EXCEPT !.systemStatus.printErrors = @ + 1],
                     "printError", M.task.numero, "Impressora desconectada"),
                "reconnectFailed")
    ELSE EnterPrintTokenNumber(M2)

\* init() returns this.isConnected to its caller: initializePrinter (main.js 33-48),
\* or reconnect() called by the newToken handler (96) or by the reconnectPrinter
\* handler (170-175)
ReturnFromInit(M) ==
    LET connected == M.printer.isConnected
        M1 == [M EXCEPT !.task = [@ EXCEPT !.via = "none", !.portName = NULL, !.cfg = 0,
                                           !.skipTest = FALSE, !.h = NoHandle,
                                           !.ports = <<>>, !.queue = <<>>,
                                           !.scanLog = <<>>, !.scanHit = NULL,
                                           !.sent = <<>>]]
    IN
    CASE M.task.kind = "main" ->
            IF connected
            THEN Finish([M1 EXCEPT !.systemStatus.printerConnected = TRUE], "connected")
            ELSE IF M.task.attempt < maxAttempts
                 THEN [M1 EXCEPT !.task.pc = "delay"]
                 ELSE Finish([M1 EXCEPT !.systemStatus.printerConnected = FALSE],
                             "notConnected")
      [] M.task.kind = "newToken" -> NewTokenAfterReconnect(M1, connected)
      [] OTHER -> \* reconnectPrinter
            Finish(Emit([M1 EXCEPT !.systemStatus.printerConnected = connected],
                        "printerReconnectResponse", NULL,
                        IF connected THEN "true" ELSE "false"),
                   IF connected THEN "connected" ELSE "notConnected")

\* printTokenNumber probing lastWorkingPort again whenever the quick reconnect fails
AfterTryUsbPort_RetriesQuick(M, found) ==
    CASE M.task.via = "scan" ->
            IF ScanContinues(found, M.task.queue)
            THEN StartTryUsbPort([M EXCEPT !.task.queue = Tail(@)],
                                 Head(M.task.queue), FALSE, "scan")
            ELSE ReturnFromInit(M)
      [] M.task.via = "quick" ->
            IF found THEN EnterPrintTokenNumber(M)
                     ELSE StartTryUsbPort(M, M.task.portName, TRUE, "quick")
      [] OTHER -> ReturnFromInit(M)

\* tryUsbPort returns `found` to its caller: init (41), a loop of scanAllUsbPorts
\* (167, 176) or printTokenNumber (285)
AfterTryUsbPort(M, found) ==
    CASE M.task.via = "scan" ->
            IF ScanContinues(found, M.task.queue)
            THEN StartTryUsbPort([M EXCEPT !.task.queue = Tail(@)],
                                 Head(M.task.queue), FALSE, "scan")
            ELSE ReturnFromInit(M)
      [] M.task.via = "quick" ->
            IF found THEN EnterPrintTokenNumber(M)
                     ELSE ReturnFromPrintToken(M, "disconnected")
      [] OTHER -> ReturnFromInit(M)

\* printConnectionTest returns to its caller: tryUsbPort (which then returns true),
\* tryNetworkPrinter or tryTmusbPrinter (which return to init)
AfterConnectionTest(M) ==
    IF M.task.via \in {"scan", "explicit"}
    THEN AfterTryUsbPort(M, TRUE)
    ELSE ReturnFromInit(M)

\* printConnectionTest(), up to its await of this.printer.execute()
PrintConnectionTest(M) ==
    IF M.printer.printer = NoHandle
    THEN AfterConnectionTest(M)
    ELSE LET id == M.printer.printer.id
             layout == Compose(M.buffers[id], "TESTE DE CONEXAO")
         IN  [M EXCEPT !.buffers[id] = layout,
                       !.task = [@ EXCEPT !.pc = "testExecute", !.h = M.printer.printer,
                                          !.sent = layout]]

\* init(), up to its first await
StartInit(M) ==
    LET M1 == [M EXCEPT !.task.inits = @ + 1]
        printerMode == env.PRINTER_MODE
    IN
    CASE printerMode = "usb" ->
            IF env.PRINTER_PORT # NULL
            THEN StartTryUsbPort(M1, env.PRINTER_PORT, FALSE, "explicit")
            ELSE \* scanAllUsbPorts: await SerialPort.list()
                 [M1 EXCEPT !.task = [@ EXCEPT !.pc = "list", !.via = "scan",
                                               !.scanLog = <<>>, !.scanHit = NULL]]
      [] printerMode = "network" ->
            IF env.PRINTER_IP = NULL
            THEN ReturnFromInit(M1)
            ELSE LET new == NewThermalPrinter(M, "tcp", configs[1]) IN
                 [M1 EXCEPT !.buffers[new.id] = <<>>,
                            !.task = [@ EXCEPT !.via = "network", !.pc = "netConnected",
                                               !.h = new]]
      [] printerMode = "tmusb" ->
            LET new == NewThermalPrinter(M, "TMUSB001", configs[1]) IN
            [M1 EXCEPT !.buffers[new.id] = <<>>,
                       !.task = [@ EXCEPT !.via = "tmusb", !.pc = "tmusbConnected",
                                          !.h = new]]
      [] OTHER -> ReturnFromInit(M1)

\* reconnect() leaving this.printer as it is
Reconnect_KeepsHandle(M) ==
    StartInit([M EXCEPT !.printer.isConnected = FALSE,
                        !.printer.reconnectAttempts = 0])

\* reconnect(): the object this.printer held is dropped; it lives on only if a
\* handler still references it (an outstanding execute() or status query on it)
Reconnect(M) ==
    LET old == M.printer.printer
        held == old # NoHandle /\ \E u \in TaskIds : tasks[u].h = old
    IN  StartInit([M EXCEPT !.printer.printer = NoHandle,
                            !.printer.isConnected = FALSE,
                            !.printer.reconnectAttempts = 0,
                            !.released = IF held THEN @ \cup {old.id} ELSE @])

\* tryUsbPort's writes without `this.reconnectAttempts = 0`
InstallUsb_KeepsAttempts(M) ==
    [M EXCEPT !.printer.printer = M.task.h,
              !.printer.isConnected = TRUE,
              !.printer.lastWorkingPort = M.task.portName,
              !.channelLost = "none",
              !.task.scanHit = IF M.task.via = "scan" THEN M.task.portName ELSE @]

\* The writes of a successful liveness query: tryUsbPort 106-109
InstallUsb(M) ==
    [M EXCEPT !.printer.printer = M.task.h,
              !.printer.isConnected = TRUE,
              !.printer.lastWorkingPort = M.task.portName,
              !.printer.reconnectAttempts = 0,
              !.channelLost = "none",
              !.task.scanHit = IF M.task.via = "scan" THEN M.task.portName ELSE @]

\* The writes of a successful liveness query: tryNetworkPrinter 212-213,
\* tryTmusbPrinter 237-238
InstallOther(M) ==
    [M EXCEPT !.printer.printer = M.task.h,
              !.printer.isConnected = TRUE,
              !.channelLost = "none"]

\* checkStatus() taking a failed liveness query for a lost connection
AfterCheckStatus_MarksDisconnected(M, connected) ==
    Finish(Emit([M EXCEPT !.printer.isConnected = IF connected = "true" THEN @ ELSE FALSE],
                "printerStatusResponse", NULL,
                IF connected = "true" THEN "true" ELSE "false"),
           "status")

\* checkStatus() after its await: the query's answer (353-358) or the catch (359-364)
\* is returned, and the printerStatus handler reports it (main.js 148-152)
AfterCheckStatus(M, connected) ==
    Finish(Emit(M, "printerStatusResponse", NULL,
                IF connected = "true" THEN "true" ELSE "false"),
           "status")

\* checkStatus() up to its await: without a handle it returns at once (350-352),
\* else it awaits this.printer.isPrinterConnected()
CheckStatus(M) ==
    IF M.printer.printer = NoHandle
    THEN Finish(Emit(M, "printerStatusResponse", NULL, "false"), "status")
    ELSE [M EXCEPT !.task = [@ EXCEPT !.pc = "status", !.h = M.printer.printer]]

\* ------------------------------------------------------------------ actions

\* The process as node starts it: running, its socket open
Running == [exited |-> FALSE, exitCode |-> 0, signal |-> NULL, socket |-> "open"]

Init ==
    /\ env \in Environments
    /\ host = HostLists
    /\ printer = [printer |-> NoHandle, isConnected |-> FALSE,
                  reconnectAttempts |-> 0, lastWorkingPort |-> NULL]
    /\ systemStatus = [printerConnected |-> FALSE, lastToken |-> NULL,
                       totalTokensPrinted |-> 0, printErrors |-> 0]
    /\ emitted = <<>>
    /\ returned = NoTask
    /\ delivered = 0
    /\ channelLost = "none"
    /\ tasks = [t \in TaskIds |->
                  IF t = 0 THEN [NoTask EXCEPT !.kind = "main", !.pc = "start"]
                           ELSE NoTask]
    /\ audit = FALSE
    /\ released = {}
    /\ buffers = [id \in HandleIds |-> <<>>]
    /\ payloads = {"valid"}
    /\ horizon = MaxEvents
    /\ proc = Running

\* The task's run ends at its next await (or at its return): write the state back.
Commit(t, M) ==
    /\ ~proc.exited
    /\ printer' = M.printer
    /\ systemStatus' = M.systemStatus
    /\ emitted' = M.emitted
    /\ returned' = M.returned
    /\ channelLost' = M.channelLost
    /\ tasks' = [tasks EXCEPT ![t] = M.task]
    /\ delivered' = IF tasks[t].pc = "idle" THEN delivered + 1 ELSE delivered
    /\ LET live == {M.printer.printer.id} \cup
                    {IF u = t THEN M.task.h.id ELSE tasks[u].h.id : u \in TaskIds}
       IN  \* an object nothing references any more is gone, its buffer with it
           IF audit
           THEN /\ released' = M.released \cap live
                /\ buffers' = [id \in HandleIds |->
                                  IF id \in live THEN M.buffers[id] ELSE <<>>]
           ELSE UNCHANGED <<released, buffers>>
    /\ UNCHANGED <<env, host, audit, payloads, horizon, proc>>

InFlight == {t \in TaskIds : tasks[t].pc # "idle"}

\* A socket event can be delivered: the module's top level (main() up to its first
\* await) has run, the run's events are not used up, and at most one async function
\* is in flight.
CanDeliver ==
    /\ tasks[0].pc # "start"
    /\ delivered < horizon
    /\ Cardinality(InFlight) <= 1

\* The task that serves the next event
NextEvent == CHOOSE t \in TaskIds \ {0} : tasks[t].pc = "idle" /\
                 \A u \in TaskIds \ {0} : tasks[u].pc = "idle" => t <= u

\* A handler starts: what it finds on arrival is kept for the claims.
Arrive(t, kind, numero) ==
    [Machine(t) EXCEPT !.task =
        [NoTask EXCEPT !.kind = kind, !.pc = "running", !.seq = delivered + 1,
                       !.numero = numero,
                       !.arrival =
                           IF kind = "newToken"
                           THEN [connected |-> printer.isConnected /\ printer.printer # NoHandle,
                                 lost |-> channelLost]
                           ELSE @]]

\* main(): initializePrinter's first attempt
MainStart ==
    /\ tasks[0].pc = "start"
    /\ Commit(0, StartInit([Machine(0) EXCEPT !.task.attempt = 1]))

\* initializePrinter: the 5 s delay is over, the next attempt starts
DelayDone ==
    /\ tasks[0].pc = "delay"
    /\ Commit(0, StartInit([Machine(0) EXCEPT !.task.attempt = @ + 1]))

\* socket.on('newToken')
NewToken ==
    /\ CanDeliver
    /\ \E payload \in payloads :
         LET t == NextEvent
             M == [Arrive(t, "newToken", Numero(delivered + 1))
                      EXCEPT !.task.payload = payload]
         IN  Commit(t, IF ~M.systemStatus.printerConnected
                        THEN Reconnect(M)
                        ELSE EnterPrintTokenNumber(M))

\* socket.on('testPrint')
TestPrint ==
    /\ CanDeliver
    /\ LET t == NextEvent
       IN  Commit(t, EnterPrintTokenNumber(Arrive(t, "testPrint", "TEST")))

\* socket.on('reconnectPrinter')
ReconnectPrinter ==
    /\ CanDeliver
    /\ LET t == NextEvent
       IN  Commit(t, Reconnect(Arrive(t, "reconnectPrinter", NULL)))

\* socket.on('printerStatus'): checkStatus() up to its await
PrinterStatus ==
    /\ CanDeliver
    /\ LET t == NextEvent
       IN  Commit(t, CheckStatus(Arrive(t, "printerStatus", NULL)))

\* checkStatus: this.printer.isPrinterConnected() answers, or throws
StatusDone ==
    \E t \in TaskIds, connected \in {"true", "false", "error"} :
        /\ tasks[t].pc = "status"
        /\ Commit(t, AfterCheckStatus(Machine(t), connected))

\* scanAllUsbPorts: SerialPort.list() answers, or throws
ListDone ==
    \E t \in TaskIds,
       answer \in [ports : host, threw : {FALSE}] \cup {[ports |-> <<>>, threw |-> TRUE]} :
        /\ tasks[t].pc = "list"
        /\ LET M == Machine(t)
               ports == answer.ports
           IN
           Commit(t,
             IF answer.threw
             THEN ReturnFromInit([M EXCEPT !.task.scanned = "error"])
             ELSE IF Len(ports) = 0
             THEN ReturnFromInit([M EXCEPT !.task.scanned = "empty"])
             ELSE LET order == ScanOrder(ports) IN
                  StartTryUsbPort([M EXCEPT !.task = [@ EXCEPT !.scanned = "some",
                                                               !.ports = ports,
                                                               !.queue = Tail(order)]],
                                  Head(order), FALSE, "scan"))

\* tryUsbPort: the race of isPrinterConnected() and the 10 s timeout is decided
UsbProbeDone ==
    \E t \in TaskIds, connected \in {"true", "false", "error"} :
        /\ tasks[t].pc = "isPrinterConnected"
        /\ LET M == Machine(t) IN
           Commit(t,
             IF connected = "true"
             THEN IF ~M.task.skipTest
                  THEN PrintConnectionTest(InstallUsb(M))
                  ELSE AfterTryUsbPort(InstallUsb(M), TRUE)
             ELSE IF M.task.cfg < Len(configs)
                  THEN StartProbe(M, M.task.cfg + 1)
                  ELSE AfterTryUsbPort(M, FALSE))

\* tryNetworkPrinter: isPrinterConnected() answers, or throws
NetworkProbeDone ==
    \E t \in TaskIds, connected \in {"true", "false", "error"} :
        /\ tasks[t].pc = "netConnected"
        /\ LET M == Machine(t) IN
           Commit(t, IF connected = "true"
                     THEN PrintConnectionTest(InstallOther(M))
                     ELSE ReturnFromInit(M))

\* tryTmusbPrinter: isPrinterConnected() answers, or throws
TmusbProbeDone ==
    \E t \in TaskIds, connected \in {"true", "false", "error"} :
        /\ tasks[t].pc = "tmusbConnected"
        /\ LET M == Machine(t) IN
           Commit(t, IF connected = "true"
                     THEN PrintConnectionTest(InstallOther(M))
                     ELSE ReturnFromInit(M))

\* printConnectionTest: this.printer.execute() resolves, or rejects
TestExecuteDone ==
    \E t \in TaskIds, ok \in BOOLEAN :
        /\ tasks[t].pc = "testExecute"
        /\ LET M == Machine(t) IN
           Commit(t, AfterConnectionTest(IF ok THEN M ELSE CatchPrintError(M)))

\* printTokenNumber: this.printer.execute() resolves, or rejects
TokenExecuteDone ==
    \E t \in TaskIds, ok \in BOOLEAN :
        /\ tasks[t].pc = "execute"
        /\ LET M == Machine(t) IN
           Commit(t, IF ok
                     THEN ReturnFromPrintToken(M, "ok")
                     ELSE ReturnFromPrintToken(
                            [CatchPrintError(M) EXCEPT !.channelLost = M.task.kind],
                            "ioError"))

Next ==
    \/ MainStart
    \/ DelayDone
    \/ NewToken
    \/ TestPrint
    \/ ReconnectPrinter
    \/ PrinterStatus
    \/ StatusDone
    \/ ListDone
    \/ UsbProbeDone
    \/ NetworkProbeDone
    \/ TmusbProbeDone
    \/ TestExecuteDone
    \/ TokenExecuteDone

Spec == Init /\ [][Next]_vars

\* Startup alone on a host with any serial endpoints: initializePrinter's scans.
InitScan ==
    /\ env = [PRINTER_MODE |-> "usb", PRINTER_PORT |-> NULL, PRINTER_IP |-> NULL]
    /\ host = ScanLists
    /\ printer = [printer |-> NoHandle, isConnected |-> FALSE,
                  reconnectAttempts |-> 0, lastWorkingPort |-> NULL]
    /\ systemStatus = [printerConnected |-> FALSE, lastToken |-> NULL,
                       totalTokensPrinted |-> 0, printErrors |-> 0]
    /\ emitted = <<>>
    /\ returned = NoTask
    /\ delivered = 0
    /\ channelLost = "none"
    /\ tasks = [t \in TaskIds |->
                  IF t = 0 THEN [NoTask EXCEPT !.kind = "main", !.pc = "start"]
                           ELSE NoTask]
    /\ audit = FALSE
    /\ released = {}
    /\ buffers = [id \in HandleIds |-> <<>>]
    /\ payloads = {"valid"}
    /\ horizon = MaxEvents
    /\ proc = Running

NextScan ==
    \/ MainStart
    \/ DelayDone
    \/ ListDone
    \/ UsbProbeDone
    \/ TestExecuteDone

SpecScan == InitScan /\ [][NextScan]_vars

\* The service on a configured serial endpoint, with the record of what happens to
\* its ThermalPrinter objects kept.
InitHandles ==
    /\ env = [PRINTER_MODE |-> "usb", PRINTER_PORT |-> "COM3", PRINTER_IP |-> NULL]
    /\ host = HostLists
    /\ printer = [printer |-> NoHandle, isConnected |-> FALSE,
                  reconnectAttempts |-> 0, lastWorkingPort |-> NULL]
    /\ systemStatus = [printerConnected |-> FALSE, lastToken |-> NULL,
                       totalTokensPrinted |-> 0, printErrors |-> 0]
    /\ emitted = <<>>
    /\ returned = NoTask
    /\ delivered = 0
    /\ channelLost = "none"
    /\ tasks = [t \in TaskIds |->
                  IF t = 0 THEN [NoTask EXCEPT !.kind = "main", !.pc = "start"]
                           ELSE NoTask]
    /\ audit = TRUE
    /\ released = {}
    /\ buffers = [id \in HandleIds |-> <<>>]
    /\ payloads = {"valid"}
    /\ horizon = MaxEvents
    /\ proc = Running

NextHandles ==
    \/ MainStart
    \/ DelayDone
    \/ NewToken
    \/ TestPrint
    \/ ReconnectPrinter
    \/ UsbProbeDone
    \/ TestExecuteDone
    \/ TokenExecuteDone

SpecHandles == InitHandles /\ [][NextHandles]_vars

\* process.on('SIGINT') / process.on('SIGTERM'): socket.disconnect(), process.exit(0).
\* The handlers are registered by the module's top level, before main() is called.
Signal ==
    \E sig \in {"SIGINT", "SIGTERM"} :
        /\ ~proc.exited
        /\ tasks[0].pc # "start"
        /\ proc' = [exited |-> TRUE, exitCode |-> 0, signal |-> sig, socket |-> "closed"]
        /\ UNCHANGED <<env, host, printer, systemStatus, emitted, returned, channelLost,
                       delivered, tasks, audit, released, buffers, payloads, horizon>>

\* The service on a configured serial endpoint, with a backend that may send token
\* data the layout cannot print, and with termination signals.
InitFaults ==
    /\ env = [PRINTER_MODE |-> "usb", PRINTER_PORT |-> "COM3", PRINTER_IP |-> NULL]
    /\ host = HostLists
    /\ printer = [printer |-> NoHandle, isConnected |-> FALSE,
                  reconnectAttempts |-> 0, lastWorkingPort |-> NULL]
    /\ systemStatus = [printerConnected |-> FALSE, lastToken |-> NULL,
                       totalTokensPrinted |-> 0, printErrors |-> 0]
    /\ emitted = <<>>
    /\ returned = NoTask
    /\ delivered = 0
    /\ channelLost = "none"
    /\ tasks = [t \in TaskIds |->
                  IF t = 0 THEN [NoTask EXCEPT !.kind = "main", !.pc = "start"]
                           ELSE NoTask]
    /\ audit = FALSE
    /\ released = {}
    /\ buffers = [id \in HandleIds |-> <<>>]
    /\ payloads = {"valid", "malformed"}
    /\ horizon = MaxEvents
    /\ proc = Running

NextFaults ==
    \/ MainStart
    \/ DelayDone
    \/ NewToken
    \/ TestPrint
    \/ UsbProbeDone
    \/ TestExecuteDone
    \/ TokenExecuteDone
    \/ Signal

SpecFaults == InitFaults /\ [][NextFaults]_vars

\* The service on a configured serial endpoint, followed for long enough that the
\* quick reconnect of printTokenNumber uses up its attempts: test prints and manual
\* reconnects, two of them in flight at most.
InitQuick ==
    /\ env = [PRINTER_MODE |-> "usb", PRINTER_PORT |-> "COM3", PRINTER_IP |-> NULL]
    /\ host = HostLists
    /\ printer = [printer |-> NoHandle, isConnected |-> FALSE,
                  reconnectAttempts |-> 0, lastWorkingPort |-> NULL]
    /\ systemStatus = [printerConnected |-> FALSE, lastToken |-> NULL,
                       totalTokensPrinted |-> 0, printErrors |-> 0]
    /\ emitted = <<>>
    /\ returned = NoTask
    /\ delivered = 0
    /\ channelLost = "none"
    /\ tasks = [t \in TaskIds |->
                  IF t = 0 THEN [NoTask EXCEPT !.kind = "main", !.pc = "start"]
                           ELSE NoTask]
    /\ audit = FALSE
    /\ released = {}
    /\ buffers = [id \in HandleIds |-> <<>>]
    /\ payloads = {"valid"}
    /\ horizon = MaxQuickEvents
    /\ proc = Running

NextQuick ==
    \/ MainStart
    \/ DelayDone
    \/ TestPrint
    \/ ReconnectPrinter
    \/ UsbProbeDone
    \/ TestExecuteDone
    \/ TokenExecuteDone

SpecQuick == InitQuick /\ [][NextQuick]_vars

\* The awaited printer I/O of handler t completes: the race of tryUsbPort's liveness
\* query with its 10 s timeout is decided (98-103), or an execute() settles
IoCompletes(t) ==
    /\ UsbProbeDone \/ TestExecuteDone \/ TokenExecuteDone
    /\ tasks'[t] # tasks[t]

\* Handler t is at the await of a printer I/O: IoCompletes(t) is enabled in exactly
\* these states
AwaitsIo(t) == tasks[t].pc \in {"isPrinterConnected", "testExecute", "execute"}

\* WF_vars(IoCompletes(t)), written out with AwaitsIo(t) for ENABLED <<IoCompletes(t)>>_vars:
\* an I/O that is awaited does not stay outstanding for ever
IoFair(t) == []<>(~AwaitsIo(t)) \/ []<><<IoCompletes(t)>>_vars

\* main() and the two handlers that call printTokenNumber; the newToken handler
\* calls reconnect() too
NextLive ==
    \/ MainStart
    \/ DelayDone
    \/ NewToken
    \/ TestPrint
    \/ UsbProbeDone
    \/ TestExecuteDone
    \/ TokenExecuteDone

\* The service on a configured serial endpoint, where every printer I/O the handler
\* of a socket event awaits completes or times out.
SpecLive ==
    /\ InitHandles
    /\ [][NextLive]_vars
    /\ \A t \in TaskIds \ {0} : IoFair(t)

\* ------------------------------------------------------------------ claims

Active == {t \in TaskIds : tasks[t].pc # "idle"}

\* A discovery/connect pass is outstanding in task t
Connecting(t) ==
    tasks[t].pc \in {"list", "isPrinterConnected", "netConnected", "tmusbConnected",
                     "testExecute"}

\* A print-job transmission is outstanding in task t
Transmitting(t) == tasks[t].pc = "execute"

\* C1: in every reachable state, isConnected is true if and only if this.printer is
\* non-null.
C1_ConnectedIffHandle ==
    printer.isConnected <=> (printer.printer # NoHandle)

\* C2: at most one printer operation (a connect pass or a transmission) is in flight
\* at any instant.
C2_SingleFlight ==
    Cardinality({t \in TaskIds : Connecting(t) \/ Transmitting(t)}) <= 1

\* C3: for token events t1 arriving before t2, the transmission of t2 is not started
\* while t1 is still being handled (its print job or connect attempt outstanding).
C3_TokensInArrivalOrder ==
    \A t1, t2 \in Active :
        (/\ tasks[t1].kind = "newToken"
         /\ tasks[t2].kind = "newToken"
         /\ tasks[t1].seq < tasks[t2].seq) => ~Transmitting(t2)

\* C4 as stated: a token event that finds the printer disconnected and cannot connect
\* has made exactly 3 connection attempts (init() passes) when it gives up.
C4_TokenMakesThreeAttempts ==
    (returned.kind = "newToken" /\ returned.ret \in {"reconnectFailed", "disconnected"})
        => returned.inits = 3

\* C4 amended: a token event whose reconnect step fails has made exactly one
\* connection attempt (one init() pass), and no token event makes more than one;
\* startup (initializePrinter) gives up after exactly 3 failed init() passes and never
\* makes more than 3.
C4_AttemptBounds ==
    /\ (returned.kind = "newToken" /\ returned.ret = "reconnectFailed")
          => returned.inits = 1
    /\ returned.kind = "newToken" => returned.inits <= 1
    /\ \A t \in Active : tasks[t].kind = "newToken" => tasks[t].inits <= 1
    /\ (returned.kind = "main" /\ returned.ret = "notConnected") => returned.inits = 3
    /\ returned.kind = "main" => returned.inits <= 3
    /\ tasks[0].inits <= 3

C4_Witness ==
    /\ returned.kind = "newToken"
    /\ returned.ret = "reconnectFailed"
    /\ returned.inits = 1
    /\ ~printer.isConnected

\* C5: a token event that arrives while the printer is Connected starts no liveness
\* query and no discovery pass.
C5_NoProbeWhileConnected ==
    /\ \A t \in Active :
          (tasks[t].kind = "newToken" /\ tasks[t].arrival.connected) =>
              /\ tasks[t].inits = 0
              /\ tasks[t].pc \notin {"list", "isPrinterConnected", "netConnected",
                                     "tmusbConnected"}
    /\ (returned.kind = "newToken" /\ returned.arrival.connected) => returned.inits = 0

\* C6: the step in which a token event's print job succeeds sends exactly one report,
\* tokenPrinted for that token number, the handler's only one, adds exactly 1 to
\* totalTokensPrinted and leaves printErrors as it was.
C6_PrintedStep ==
    (returned'.kind = "newToken" /\ returned'.ret = "ok") =>
        /\ emitted' = <<[event |-> "tokenPrinted", token |-> returned'.numero, info |-> "ok"]>>
        /\ returned'.reports = 1
        /\ returned'.jobExecs = 1
        /\ systemStatus'.totalTokensPrinted = systemStatus.totalTokensPrinted + 1
        /\ systemStatus'.printErrors = systemStatus.printErrors
        /\ systemStatus'.lastToken = returned'.numero

C6_PrintedRoundTrip == [][C6_PrintedStep]_vars

C6_Witness ==
    /\ returned.kind = "newToken"
    /\ returned.ret = "ok"
    /\ returned.numero = "042"
    /\ emitted = <<[event |-> "tokenPrinted", token |-> "042", info |-> "ok"]>>
    /\ systemStatus.totalTokensPrinted = 1
    /\ systemStatus.printErrors = 0

\* C7: the step in which a token event's transmission raises an I/O error sends one
\* printError report for the token, leaves printer.isConnected and
\* systemStatus.printerConnected false, adds exactly 1 to printErrors and leaves
\* totalTokensPrinted and lastToken as they were.
C7_IoErrorStep ==
    (returned'.kind = "newToken" /\ returned'.ret = "ioError") =>
        /\ emitted' = <<[event |-> "printError", token |-> returned'.numero,
                         info |-> "Falha na impressao"]>>
        /\ returned'.reports = 1
        /\ ~printer'.isConnected
        /\ ~systemStatus'.printerConnected
        /\ systemStatus'.printErrors = systemStatus.printErrors + 1
        /\ systemStatus'.totalTokensPrinted = systemStatus.totalTokensPrinted
        /\ systemStatus'.lastToken = systemStatus.lastToken

C7_IoErrorPath == [][C7_IoErrorStep]_vars

C7_Witness ==
    /\ returned.kind = "newToken"
    /\ returned.ret = "ioError"
    /\ returned.jobExecs = 1
    /\ ~printer.isConnected
    /\ ~systemStatus.printerConnected
    /\ systemStatus.printErrors = 1

\* C8: a token event for which no connection could be established (its reconnect
\* failed, or printTokenNumber found the printer disconnected and could not
\* reconnect) returns without any execute() call for the token and with exactly one
\* report sent, a printError for its token number.
C8_NoTransmissionWhenDisconnected ==
    (returned.kind = "newToken" /\ returned.ret \in {"reconnectFailed", "disconnected"}) =>
        /\ returned.jobExecs = 0
        /\ returned.reports = 1
        /\ Len(emitted) = 1
        /\ emitted[1].event = "printError"
        /\ emitted[1].token = returned.numero

C8_Witness ==
    /\ returned.kind = "newToken"
    /\ returned.ret = "reconnectFailed"
    /\ returned.scanned = "empty"
    /\ returned.jobExecs = 0
    /\ ~printer.isConnected
    /\ Len(emitted) = 1
    /\ emitted[1].event = "printError"

\* The place of a path in the list SerialPort.list() answered with, and whether the
\* endpoint there is a likely printer
IndexOf(ports, path) == CHOOSE i \in 1..Len(ports) : ports[i].path = path

Likely(ports, path) == IsPrinterPort(ports[IndexOf(ports, path)])

\* p is probed before q: p is a likely printer and q is not, or they are of one tier
\* and p was enumerated first
Before(ports, p, q) ==
    \/ Likely(ports, p) /\ ~Likely(ports, q)
    \/ /\ Likely(ports, p) = Likely(ports, q)
       /\ IndexOf(ports, p) < IndexOf(ports, q)

\* C9: in a serial scan the candidates are probed likely printers first, each tier in
\* enumeration order, none twice and none skipped, and nothing is probed after the
\* first probe that succeeds.
C9_ScanOrder ==
    \A t \in Active :
        LET log == tasks[t].scanLog
            ports == tasks[t].ports
            paths == {ports[i].path : i \in 1..Len(ports)}
        IN  tasks[t].via = "scan" =>
              /\ \A i \in 1..Len(log) : log[i] \in paths
              /\ \A i, j \in 1..Len(log) : i < j => Before(ports, log[i], log[j])
              /\ \A i \in 1..Len(log) : \A p \in paths :
                    Before(ports, p, log[i]) => \E j \in 1..(i - 1) : log[j] = p
              /\ tasks[t].scanHit # NULL => tasks[t].scanHit = log[Len(log)]

C9_Witness ==
    \E t \in Active :
        /\ tasks[t].via = "scan"
        /\ Len(tasks[t].ports) = 3
        /\ IsPrinterPort(tasks[t].ports[1])
        /\ ~IsPrinterPort(tasks[t].ports[2])
        /\ IsPrinterPort(tasks[t].ports[3])
        /\ tasks[t].scanLog = <<tasks[t].ports[1].path, tasks[t].ports[3].path>>
        /\ tasks[t].scanHit = tasks[t].ports[3].path

\* C10: after a print job of a token event or of a testPrint request has failed with a
\* device error the state is Disconnected, and the next token event runs a discovery
\* pass (init) before any transmission is attempted for it.
C10_RediscoverAfterFailure ==
    /\ channelLost # "none" => ~printer.isConnected
    /\ \A t \in Active :
          (tasks[t].kind = "newToken" /\ tasks[t].arrival.lost # "none"
              /\ tasks[t].jobExecs > 0) => tasks[t].inits > 0

\* C12: when a connection-test page fails after the liveness query passed, the probe
\* still counts: the state stays Connected with the probed handle installed, and the
\* connect pass (init) returns success to startup or to the reconnectPrinter handler.
C12_TestStep ==
    \A t \in TaskIds :
        (/\ tasks[t].pc = "testExecute"
         /\ tasks'[t] # tasks[t]
         /\ printer.isConnected
         /\ printer.printer = tasks[t].h)
        => /\ printer'.isConnected
           /\ printer'.printer = tasks[t].h
           /\ tasks'[t].pc # "delay"
           /\ returned'.kind \in {"main", "reconnectPrinter"} => returned'.ret = "connected"

C12_FailedTestStillConnects == [][C12_TestStep]_vars

\* C16: every step that ends Connected, having made the connection or installed
\* another handle, ends with reconnectAttempts = 0.
C16_ConnectStep ==
    (/\ printer'.isConnected
     /\ printer'.printer # NoHandle
     /\ (~printer.isConnected \/ printer'.printer # printer.printer))
        => printer'.reconnectAttempts = 0

C16_AttemptsResetOnConnect == [][C16_ConnectStep]_vars

\* A token event that found the printer disconnected inside printTokenNumber and
\* reconnected on lastWorkingPort (the quick path) is transmitting.
C16_Witness ==
    \E t \in Active :
        /\ tasks[t].kind = "newToken"
        /\ ~tasks[t].arrival.connected
        /\ tasks[t].inits = 0
        /\ tasks[t].pc = "execute"
        /\ printer.isConnected
        /\ printer.lastWorkingPort # NULL
        /\ printer.reconnectAttempts = 0

\* C17: with a serial endpoint configured, no task ever lists the serial ports and
\* every liveness query is on the configured endpoint; and when the last query of a
\* pass fails, the pass ends as failed with the state Disconnected.
C17_ExplicitStep ==
    (env.PRINTER_MODE = "usb" /\ env.PRINTER_PORT # NULL) =>
        \A t \in TaskIds :
            /\ tasks'[t].pc # "list"
            /\ tasks'[t].pc = "isPrinterConnected" => tasks'[t].portName = env.PRINTER_PORT
            /\ (/\ tasks[t].pc = "isPrinterConnected"
                /\ tasks[t].via = "explicit"
                /\ tasks[t].cfg = Len(configs)
                /\ tasks'[t] # tasks[t]
                /\ tasks'[t].pc # "testExecute")
               => /\ ~printer'.isConnected
                  /\ returned'.kind # "none" =>
                        returned'.ret \in {"notConnected", "reconnectFailed"}

C17_ExplicitOnly == [][C17_ExplicitStep]_vars

\* C19: whenever no async function is in flight, systemStatus.printerConnected equals
\* printer.isConnected.
C19_FlagAgrees ==
    Active = {} => (systemStatus.printerConnected <=> printer.isConnected)

\* The number of reports of one event sent in a step
Sent(reports, event) == Cardinality({i \in 1..Len(reports) : reports[i].event = event})

\* C20: in every step totalTokensPrinted grows by the number of tokenPrinted reports
\* sent and printErrors by the number of printError reports sent; a step sends one of
\* them exactly when a newToken handler returns in it, and that report is the
\* handler's only one; so the counters equal the reports sent and their sum the
\* completed newToken handlers, and no other request changes a counter.
C20_CountStep ==
    /\ systemStatus'.totalTokensPrinted =
          systemStatus.totalTokensPrinted + Sent(emitted', "tokenPrinted")
    /\ systemStatus'.printErrors = systemStatus.printErrors + Sent(emitted', "printError")
    /\ Sent(emitted', "tokenPrinted") + Sent(emitted', "printError") =
          IF returned'.kind = "newToken" THEN 1 ELSE 0
    /\ returned'.kind = "newToken" => returned'.reports = 1
    /\ returned'.kind \in {"testPrint", "reconnectPrinter", "printerStatus"} =>
          /\ systemStatus'.totalTokensPrinted = systemStatus.totalTokensPrinted
          /\ systemStatus'.printErrors = systemStatus.printErrors

C20_CountersMatchReports == [][C20_CountStep]_vars

C20_Witness ==
    /\ Active = {}
    /\ returned.kind = "newToken"
    /\ returned.seq = 2
    /\ systemStatus.totalTokensPrinted = 1
    /\ systemStatus.printErrors = 1

\* C11: the step in which a reconnectPrinter request arrives leaves this.printer null
\* and the state Disconnected, with the fresh connect pass started on another object;
\* and no transmission (of a job or of a connection-test page) ever starts on a handle
\* that reconnect() has dropped, nor is such a handle ever installed again.
C11_ReconnectStep ==
    /\ \A t \in TaskIds :
          (tasks[t].pc = "idle" /\ tasks'[t].kind = "reconnectPrinter") =>
              /\ printer'.printer = NoHandle
              /\ ~printer'.isConnected
              /\ tasks'[t].inits = 1
              /\ tasks'[t].pc = "isPrinterConnected"
              /\ tasks'[t].h.id \notin released'
              /\ (printer.printer # NoHandle /\ \E u \in TaskIds : tasks[u].h = printer.printer)
                    => printer.printer.id \in released'
    /\ \A t \in TaskIds :
          (tasks'[t].pc \in {"execute", "testExecute"} /\ tasks[t].pc # tasks'[t].pc) =>
              tasks'[t].h.id \notin released'
    /\ printer'.printer.id \notin released'

C13_FormatStep ==
    (/\ returned'.ret = "formatError"
     /\ printer.isConnected
     /\ printer.printer # NoHandle) => printer'.isConnected

C13_FormatErrorKeepsConnection == [][C13_FormatStep]_vars

\* C14: a process ended by SIGINT or SIGTERM has exited with status 0, with its socket
\* closed, the printer handle released and the state Disconnected.
C14_SignalDisconnects ==
    proc.exited =>
        /\ proc.exitCode = 0
        /\ proc.socket = "closed"
        /\ printer.printer = NoHandle
        /\ ~printer.isConnected

\* C15: with a PRINTER_MODE that init() has no branch for, startup does not return
\* into steady-state operation: the process has exited with a non-zero status.
C15_InvalidModeExits ==
    (env.PRINTER_MODE \notin SupportedModes /\ tasks[0].pc = "idle") =>
        (proc.exited /\ proc.exitCode # 0)

\* C18: the buffer handed to every execute() holds exactly the layout of the job (or
\* the connection-test page) being sent, whatever was composed on the object before.
C18_OneJobPerBuffer ==
    \A t \in Active :
        /\ tasks[t].pc = "execute" => tasks[t].sent = <<tasks[t].numero>>
        /\ tasks[t].pc = "testExecute" => tasks[t].sent = <<"TESTE DE CONEXAO">>

\* Two jobs are outstanding on the same ThermalPrinter object, each sent with its own
\* layout only.
C18_Witness ==
    \E t, u \in Active :
        /\ t # u
        /\ tasks[t].pc = "execute"
        /\ tasks[u].pc = "execute"
        /\ tasks[t].h.id = tasks[u].h.id
        /\ tasks[t].sent = <<"042">>
        /\ tasks[u].sent = <<"7">>
        /\ buffers[tasks[u].h.id] = <<"7">>

\* A step of the printerStatus handler: it arrives (and returns at once, or awaits
\* the liveness query), or its query is answered
C22_StatusStep ==
    \E t \in TaskIds \ {0} :
        /\ tasks'[t] # tasks[t]
        /\ \/ tasks[t].kind = "printerStatus"
           \/ tasks'[t].kind = "printerStatus"
           \/ tasks[t].pc = "idle" /\ returned'.kind = "printerStatus"

\* C22: a status query changes nothing in the connection manager: the handle,
\* isConnected, reconnectAttempts and lastWorkingPort are the same after every step
\* of checkStatus as before it, whatever the liveness query answers.
C22_StatusChangesNothing ==
    [][C22_StatusStep => printer' = printer]_vars

\* A status query on an installed handle has just answered 'not connected' (or
\* raised an error) and the connection manager still says Connected.
C22_Witness ==
    /\ returned.kind = "printerStatus"
    /\ printer.printer # NoHandle
    /\ printer.isConnected
    /\ Len(emitted) = 1
    /\ emitted[1].event = "printerStatusResponse"
    /\ emitted[1].info = "false"

\* printTokenNumber starts a quick reconnect in this step: tryUsbPort(lastWorkingPort,
\* true) is called (285)
C23_QuickStart ==
    \E t \in TaskIds :
        /\ tasks[t].via # "quick"
        /\ tasks'[t].via = "quick"
        /\ tasks'[t].pc = "isPrinterConnected"

\* The counter is reset in this step: a liveness query on a serial endpoint
\* succeeded (tryUsbPort 109), or reconnect() was called (374)
C23_Reset ==
    \E t \in TaskIds :
        \/ /\ tasks[t].pc = "isPrinterConnected"
           /\ printer'.lastWorkingPort = tasks[t].portName
        \/ /\ tasks[t].pc = "idle"
           /\ tasks'[t].inits + returned'.inits > 0

\* A handler arrives that calls printTokenNumber at once, while the printer is
\* Disconnected and the attempts are used up
C23_ExhaustedCall ==
    /\ printer.reconnectAttempts = maxReconnectAttempts
    /\ printer.printer = NoHandle \/ ~printer.isConnected
    /\ \E t \in TaskIds \ {0} :
          /\ tasks[t].pc = "idle"
          /\ delivered' = delivered + 1
          /\ \/ "testPrint" \in {tasks'[t].kind, returned'.kind}
             \/ /\ "newToken" \in {tasks'[t].kind, returned'.kind}
                /\ systemStatus.printerConnected

C23_CounterStep ==
    /\ C23_QuickStart =>
          /\ printer.reconnectAttempts < maxReconnectAttempts
          /\ printer'.reconnectAttempts = printer.reconnectAttempts + 1
    /\ (printer'.reconnectAttempts # printer.reconnectAttempts /\ ~C23_QuickStart) =>
          /\ printer'.reconnectAttempts = 0
          /\ C23_Reset
    /\ C23_ExhaustedCall =>
          /\ returned'.ret = "disconnected"
          /\ returned'.jobExecs = 0
          /\ \A t \in TaskIds : tasks'[t] = tasks[t]
          /\ printer' = printer

\* C23: reconnectAttempts stays within 0..maxReconnectAttempts in every interleaving;
\* every quick reconnect of printTokenNumber raises it by one from below the bound
\* and it only ever falls to 0, by a successful serial probe or by reconnect(), so at
\* most maxReconnectAttempts quick reconnects happen between two resets; and a call
\* made while Disconnected with the attempts used up returns failure without probing.
C23_AttemptsBounded ==
    /\ [](printer.reconnectAttempts \in 0..maxReconnectAttempts)
    /\ [][C23_CounterStep]_vars

\* The attempts are used up and a test print that arrived in this state has just
\* returned failure: no quick reconnect was made for it.
C23_Witness ==
    /\ printer.reconnectAttempts = maxReconnectAttempts
    /\ ~printer.isConnected
    /\ printer.lastWorkingPort # NULL
    /\ returned.kind = "testPrint"
    /\ returned.ret = "disconnected"
    /\ returned.via = "none"
    /\ returned.seq = delivered

\* Handler t is inside a call of printTokenNumber: at the await of its quick
\* reconnect (285) or of its execute() (336)
C21_InPrintToken(t) ==
    \/ tasks[t].pc = "execute"
    \/ tasks[t].via = "quick"

\* C21: every call of printTokenNumber returns, provided each printer I/O completes
\* or times out, whatever other handlers do at its awaits; and one call makes at
\* most one execute() for its job, the recursion after a quick reconnect included.
C21_ReturnsAfterOneJob ==
    /\ [](\A t \in TaskIds : tasks[t].jobExecs <= 1 /\ returned.jobExecs <= 1)
    /\ \A t \in TaskIds \ {0} : C21_InPrintToken(t) ~> (tasks[t].pc = "idle")

\* A call of printTokenNumber is at the second liveness query of its quick
\* reconnect while the job of another handler is outstanding.
C21_Witness ==
    \E t, u \in TaskIds :
        /\ t # u
        /\ tasks[t].via = "quick"
        /\ tasks[t].pc = "isPrinterConnected"
        /\ tasks[t].cfg = 2
        /\ tasks[t].jobExecs = 0
        /\ tasks[u].pc = "execute"
        /\ tasks[u].jobExecs = 1

====
